---- MODULE Spec2Model ----
(***************************************************************************)
(* ExplainX bot (src/main.py): the access-gated request/response pipeline, *)
(* the join recheck callback and the administrator broadcast, over the     *)
(* users(id, joined) table.                                                *)
(*                                                                         *)
(* Every handler run is a small process: one step per awaited store        *)
(* operation or external call, so that runs can be interleaved.  A text is  *)
(* a sequence of one-character strings; a text produced by the generation  *)
(* API is such a sequence followed by `pad` more filler characters (not    *)
(* whitespace, not Markdown), which is how texts longer than the 3500      *)
(* characters kept by send_log are represented.                            *)
(***************************************************************************)
EXTENDS Integers, Sequences, FiniteSets, TLC

(* ------------------------------ bounds -------------------------------- *)
\* Telegram user ids are 1..NumUsers.
NumUsers == 2
\* Longest text that follows a command word / longest bare message body.
MaxTextLen == 2

(* ------------------------- program constants -------------------------- *)
\* ADMIN_ID = int(os.environ.get("ADMIN_ID", "0")): the configured administrator.
ADMIN_ID == 1
\* answer[:3500] in send_log.
LogOutputLimit == 3500
\* The chat id of a configured log channel (LOG_CHANNEL # 0).
LogChat == 7

UserIds == 1..NumUsers
Slots == {"r1", "r2"}

(* ------------------------------- texts -------------------------------- *)
Chars == {" ", "a"}

RECURSIVE SeqsUpTo(_)
SeqsUpTo(n) ==
    IF n = 0 THEN {<<>>}
    ELSE LET shorter == SeqsUpTo(n - 1)
         IN  shorter \cup {Append(s, c) : s \in {t \in shorter : Len(t) = n - 1}, c \in Chars}

IsSpace(c) == c = " "

\* str.split(): the maximal runs of non-whitespace characters, in order.
RECURSIVE SplitFrom(_, _, _)
SplitFrom(s, i, word) ==
    IF i > Len(s)
    THEN IF word = <<>> THEN <<>> ELSE <<word>>
    ELSE IF IsSpace(s[i])
         THEN IF word = <<>> THEN SplitFrom(s, i + 1, <<>>)
              ELSE <<word>> \o SplitFrom(s, i + 1, <<>>)
         ELSE SplitFrom(s, i + 1, Append(word, s[i]))

Split(s) == SplitFrom(s, 1, <<>>)

\* " ".join(words)
RECURSIVE Join(_)
Join(words) ==
    IF words = <<>> THEN <<>>
    ELSE IF Len(words) = 1 THEN words[1]
    ELSE words[1] \o <<" ">> \o Join(Tail(words))

\* str.strip()
RECURSIVE LStrip(_)
LStrip(s) == IF s # <<>> /\ IsSpace(s[1]) THEN LStrip(Tail(s)) ELSE s

RECURSIVE RStrip(_)
RStrip(s) ==
    IF s # <<>> /\ IsSpace(s[Len(s)]) THEN RStrip(SubSeq(s, 1, Len(s) - 1)) ELSE s

Strip(s) == RStrip(LStrip(s))

\* A text s followed by pad filler characters.
Text(s, pad) == [s |-> s, pad |-> pad]
Plain(s) == Text(s, 0)
TLen(t) == Len(t.s) + t.pad

\* t[:n]
Prefix(t, n) ==
    IF n <= Len(t.s) THEN Text(SubSeq(t.s, 1, n), 0)
    ELSE Text(t.s, IF t.pad < n - Len(t.s) THEN t.pad ELSE n - Len(t.s))

\* t.strip(): the filler is not whitespace
TStrip(t) == IF t.pad = 0 THEN Plain(Strip(t.s)) ELSE Text(LStrip(t.s), t.pad)

\* f"{p}{t}" for a fixed text p
Prepend(p, t) == Text(p \o t.s, t.pad)

StartsWith(s, p) == Len(s) >= Len(p) /\ SubSeq(s, 1, Len(p)) = p

\* str(n) of a non-negative int, as in an f-string
Digit(d) == <<"0", "1", "2", "3", "4", "5", "6", "7", "8", "9">>[d + 1]

RECURSIVE Decimal(_)
Decimal(n) == IF n < 10 THEN <<Digit(n)>> ELSE Append(Decimal(n \div 10), Digit(n % 10))

(* ------------------------------ messages ------------------------------ *)
CmdStart == <<"/", "s", "t", "a", "r", "t">>
CmdExplain == <<"/", "e", "x", "p", "l", "a", "i", "n">>
CmdPrompt == <<"/", "p", "r", "o", "m", "p", "t">>
CmdBroadcast == <<"/", "b", "r", "o", "a", "d", "c", "a", "s", "t">>

\* What may follow a command word in a message: nothing, or whitespace and more;
\* among the longer arguments, the one that itself starts with "/explain".
CommandTails ==
    {t \in SeqsUpTo(MaxTextLen) : t = <<>> \/ IsSpace(t[1])} \cup {<<" ">> \o CmdExplain}

\* The body of an unprefixed text message, as the platform delivers it (trimmed,
\* not empty).
TextBodies ==
    {t \in SeqsUpTo(MaxTextLen) : t # <<>> /\ ~IsSpace(t[1]) /\ ~IsSpace(t[Len(t)])}

\* context.args of a CommandHandler: message.text.split()[1:].
CommandArgs(text) == Tail(Split(text))

(* ----------------------------- User Store ----------------------------- *)
\* The users table is a function from the ids that have a row to their joined flag.
EmptyTable == [i \in {} |-> FALSE]

\* Mutant: an upsert that resets the flag (ON CONFLICT (id) DO UPDATE SET joined = FALSE).
add_user_overwrite(tbl, user_id) ==
    [i \in DOMAIN tbl \cup {user_id} |-> IF i = user_id THEN FALSE ELSE tbl[i]]

\* INSERT ... ON CONFLICT (id) DO NOTHING
add_user(tbl, user_id) ==
    IF user_id \in DOMAIN tbl THEN tbl ELSE tbl @@ (user_id :> FALSE)

\* Mutant: the statement flips the flag (SET joined = NOT joined).
update_join_toggle(tbl, user_id) ==
    [i \in DOMAIN tbl |-> IF i = user_id THEN ~tbl[i] ELSE tbl[i]]

\* Mutant: the statement has no WHERE clause.
update_join_everyone(tbl, user_id) == [i \in DOMAIN tbl |-> TRUE]

\* Mutant: the update is never committed.
update_join_noop(tbl, user_id) == tbl

\* UPDATE users SET joined = TRUE WHERE id = $1
update_join(tbl, user_id) ==
    [i \in DOMAIN tbl |-> IF i = user_id THEN TRUE ELSE tbl[i]]

\* Mutant: the row is never found.
is_joined_no_row(tbl, user_id) == FALSE

\* SELECT joined FROM users WHERE id = $1; row["joined"] if row else False
is_joined(tbl, user_id) ==
    IF user_id \in DOMAIN tbl THEN tbl[user_id] ELSE FALSE

\* Mutant: SELECT id FROM users WHERE joined.
get_all_users_joined(tbl) == {i \in DOMAIN tbl : tbl[i]}

\* SELECT id FROM users
get_all_users(tbl) == DOMAIN tbl

(* --------------------------- Prompt Builder --------------------------- *)
\* The two f-string templates: fixed text around the raw user text.
build_explain_prompt(user_text) ==
    <<"You are an expert explainer. ... Text: \"\"\"">> \o user_text \o <<"\"\"\"">>

build_prompt_refiner(user_text) ==
    <<"You are a world-class prompt engineer. ... - **Original Prompt**: ">>
        \o user_text \o <<" - **Refined Prompt**: <ultra high-level upgraded version>">>

EXPLAIN_MODEL == "gpt-3.5-turbo"
PROMPT_MODEL == "gpt-3.5-turbo"

(* -------------------------- Generation Client ------------------------- *)
\* What client.chat.completions.create can do: return a message content, or raise.
\* "*" stands for an unbalanced Markdown entity; the long texts pass the
\* send_log truncation limit.
LongAnswer == Text(<<"T">>, LogOutputLimit)
Answers == {Plain(<<"T">>), Plain(<<" ", "T", " ">>), Plain(<<"*">>), LongAnswer}

ErrPrefix == <<"U+26A0", "U+FE0F", " ", "E", "r", "r", "o", "r", ":", " ">>
LongError == Text(<<"e">>, LogOutputLimit - Len(ErrPrefix))
GenErrors == {Plain(<<"t", "i", "m", "e", "o", "u", "t">>), LongError}

GenOutcomes ==
    {[ok |-> TRUE, text |-> a] : a \in Answers}
        \cup {[ok |-> FALSE, text |-> e] : e \in GenErrors}

\* Mutant: the error text without the marker.
ErrText_bare(e) == e

\* err = f"<warning sign> Error: {e}"
ErrText(e) == Prepend(ErrPrefix, e)

\* Telegram's legacy Markdown parser rejects a text with an unclosed entity:
\* reply_text(..., parse_mode="Markdown") then raises BadRequest.
MarkdownParses(t) == Cardinality({i \in 1..Len(t.s) : t.s[i] = "*"}) % 2 = 0
BadRequestText == Plain(<<"C", "a", "n", "'", "t", " ", "p", "a", "r", "s", "e">>)

(* ------------------------- Membership Verifier ------------------------ *)
MemberStatuses == {"member", "administrator", "creator"}

\* What bot.get_chat_member(REQUIRED_CHANNEL, user_id) can do for a user, given
\* who is in the channel: return a status, or raise.
VerifierOutcomes(members, user_id) ==
    {[raised |-> "none", status |-> st] :
        st \in (IF user_id \in members
                THEN MemberStatuses \cup {"restricted"}
                ELSE {"left", "kicked", "restricted"})}
        \cup {[raised |-> x, status |-> "none"] : x \in {"Forbidden", "BadRequest", "Exception"}}

\* Mutant: the Forbidden handler answers True.
is_member_forbidden_passes(outcome) ==
    IF outcome.raised = "none" THEN outcome.status \in MemberStatuses
    ELSE outcome.raised = "Forbidden"

\* is_member: True only for a returned status of a member; every exception is False.
is_member(outcome) ==
    IF outcome.raised = "none" THEN outcome.status \in MemberStatuses ELSE FALSE

(* -------------------------------- state ------------------------------- *)
VARIABLES
    users,        \* the users table
    inChannel,    \* the user ids that really are in REQUIRED_CHANNEL
    joinUI,       \* the user ids whose chat shows a message with the check_join button
    LOG_CHANNEL,  \* the configured log channel id, 0 when none is configured
    run           \* per slot: the handler run in progress, or the last one finished

vars == <<users, inChannel, joinUI, LOG_CHANNEL, run>>

NoLog == [command |-> "none", input |-> <<>>, output |-> Plain(<<>>)]

IdleRun ==
    [handler |-> "none", update |-> "none", user_id |-> 0, text |-> <<>>, pc |-> "idle",
     user_text |-> <<>>, gate |-> "none", out |-> <<>>, gen |-> <<>>,
     pending |-> NoLog, logs |-> <<>>, verifier |-> <<>>, fetches |-> 0,
     listed |-> {}, todo |-> {}, attempts |-> <<>>, sent |-> 0, failed |-> 0,
     diag |-> <<>>, after |-> "none", overlap |-> FALSE,
  fault |-> <<>>, recovered |-> FALSE]

Init ==
    /\ users = EmptyTable
    /\ inChannel = {}
    /\ joinUI = {}
    /\ LOG_CHANNEL \in {0, LogChat}
    /\ run = [s \in Slots |-> IdleRun]

Finished(r) == r.pc \in {"idle", "done"}
Quiet(S) == \A t \in S : Finished(run[t])

\* Slot s takes a step to r; `overlap` notes that it did so while the run of
\* another slot was in progress.
Set(s, r) ==
    run' = [run EXCEPT
               ![s] = [r EXCEPT !.overlap = @ \/ \E t \in Slots \ {s} : ~Finished(run[t])]]

(* --------------------------- messages to users ------------------------ *)
JoinButtons == {"join_link", "check_join"}

Msg(via, kind, text, buttons, delivered) ==
    [via |-> via, kind |-> kind, text |-> text, buttons |-> buttons, delivered |-> delivered]

Fixed(via, kind, words, buttons) == Msg(via, kind, Plain(<<words>>), buttons, TRUE)

JoinPrompt == Fixed("reply_text", "join_ui", "Please join our channel to use the bot.", JoinButtons)
Welcome == Fixed("reply_text", "welcome", "Welcome back!", {})
ExplainUsage == Fixed("reply_text", "usage", "Usage: /explain your_text_here", {})
PromptUsage == Fixed("reply_text", "usage", "Usage: /prompt your_idea_here", {})
BroadcastUsage == Fixed("reply_text", "usage", "Usage: /broadcast your_message", {})
NotAuthorized == Fixed("reply_text", "unauthorized", "You are not authorized.", {})
ThanksForJoining == Fixed("edit_text", "joined", "Thanks for joining! Type /start again", {})
NotJoinedAlert == Fixed("answer", "alert", "You haven't joined yet!", {})

(* ------------------------------ dispatch ------------------------------ *)
\* main(), lines 282-287: the handler each kind of update is routed to.
Routes ==
    {[update |-> "/start", handler |-> "start"],
     [update |-> "/explain", handler |-> "explain"],
     [update |-> "/prompt", handler |-> "prompt_refiner"],
     [update |-> "/broadcast", handler |-> "broadcast"],
     [update |-> "callback:check_join", handler |-> "check_join"],
     [update |-> "text", handler |-> "explain"]}

\* The message texts an update of each kind can carry.
Texts(update) ==
    CASE update = "/start" -> {CmdStart}
      [] update = "/explain" -> {CmdExplain \o t : t \in CommandTails}
      [] update = "/prompt" -> {CmdPrompt \o t : t \in CommandTails}
      [] update = "/broadcast" -> {CmdBroadcast \o t : t \in CommandTails}
      [] update = "text" -> TextBodies
      [] update = "callback:check_join" -> {<<>>}

IsCommand(text) == text # <<>> /\ text[1] = "/"

FirstPc(handler) ==
    CASE handler = "start" -> "start_add_user"
      [] handler = "check_join" -> "check_join_verify"
      [] handler = "explain" -> "explain_gate"
      [] handler = "prompt_refiner" -> "prompt_refiner_gate"
      [] handler = "broadcast" -> "broadcast_begin"

\* The verifier of the finished run prev answered verified.
WasVerified(prev) ==
    /\ prev.verifier # <<>>
    /\ prev.verifier[1].raised = "none"
    /\ prev.verifier[1].status \in MemberStatuses

\* Which run of the same user this slot finished just before the new one: for
\* a check_join, "start" or (when that one was verified) "check_join"; for
\* explain and prompt_refiner, "recovery" when it was a verified check_join
\* that itself came right after the user's /start.
Following(prev, user_id, handler) ==
    IF prev.pc = "done" /\ prev.user_id = user_id
    THEN IF handler = "check_join"
         THEN IF prev.handler = "start" THEN "start"
              ELSE IF prev.handler = "check_join" /\ WasVerified(prev) THEN "check_join"
              ELSE "none"
         ELSE IF /\ handler \in {"explain", "prompt_refiner"}
                 /\ prev.handler = "check_join"
                 /\ prev.after = "start"
                 /\ WasVerified(prev)
              THEN "recovery"
              ELSE "none"
    ELSE "none"

\* An update from user_id, of one of `routes`, arrives and its handler starts in
\* slot s; the runs of the slots in `exclusive` must have finished.  The
\* check_join callback can only come from a user whose chat shows the button.
\* The text of the update is drawn by the step of the handler that first reads it.
Arrive(s, exclusive, routes) ==
    /\ Finished(run[s])
    /\ Quiet(exclusive)
    /\ \E user_id \in UserIds, route \in routes :
          /\ route.handler = "check_join" => user_id \in joinUI
          /\ Set(s, [IdleRun EXCEPT !.handler = route.handler, !.update = route.update,
                                    !.user_id = user_id, !.pc = FirstPc(route.handler),
                                    !.after = Following(run[s], user_id, route.handler),
                                         !.recovered = run[s].fault # <<>>])
    /\ UNCHANGED <<users, inChannel, joinUI, LOG_CHANNEL>>

Dispatch(s, exclusive) == Arrive(s, exclusive, Routes)

(* ------------------------------- /start ------------------------------- *)
\* start, line 144: await add_user(user_id)
start_add_user(s) ==
    /\ run[s].pc = "start_add_user"
    /\ users' = add_user(users, run[s].user_id)
    /\ Set(s, [run[s] EXCEPT !.pc = "start_reply"])
    /\ UNCHANGED <<inChannel, joinUI, LOG_CHANNEL>>

\* start, lines 146-164: read the flag, reply with the welcome or the join UI
start_reply(s) ==
    /\ run[s].pc = "start_reply"
    /\ LET joined == is_joined(users, run[s].user_id)
       IN  /\ Set(s, [run[s] EXCEPT !.pc = "done",
                                    !.gate = IF joined THEN "allowed" ELSE "denied",
                                    !.out = Append(@, IF joined THEN Welcome ELSE JoinPrompt)])
           /\ joinUI' = IF joined THEN joinUI ELSE joinUI \cup {run[s].user_id}
    /\ UNCHANGED <<users, inChannel, LOG_CHANNEL>>

(* ------------------------------ check_join ---------------------------- *)
\* check_join, line 169: await is_member(context.bot, user_id); the else branch
\* (line 173) answers the callback query with an alert.
check_join_verify(s) ==
    /\ run[s].pc = "check_join_verify"
    /\ \E outcome \in VerifierOutcomes(inChannel, run[s].user_id) :
          Set(s, IF is_member(outcome)
                 THEN [run[s] EXCEPT !.pc = "check_join_update",
                                     !.verifier = Append(@, outcome)]
                 ELSE [run[s] EXCEPT !.pc = "done",
                                     !.verifier = Append(@, outcome),
                                     !.out = Append(@, NotJoinedAlert)])
    /\ UNCHANGED <<users, inChannel, joinUI, LOG_CHANNEL>>

\* check_join, lines 170-171: await update_join(user_id); edit the join-UI message
check_join_update(s) ==
    /\ run[s].pc = "check_join_update"
    /\ users' = update_join(users, run[s].user_id)
    /\ Set(s, [run[s] EXCEPT !.pc = "done", !.out = Append(@, ThanksForJoining)])
    /\ UNCHANGED <<inChannel, joinUI, LOG_CHANNEL>>

(* ------------------------- /explain and /prompt ----------------------- *)
\* explain, line 189: " ".join(context.args) if context.args else message.text
\* (context.args is None for the MessageHandler route).
explain_user_text(text) ==
    IF IsCommand(text) /\ CommandArgs(text) # <<>> THEN Join(CommandArgs(text)) ELSE text

\* Mutant: the raw text after the command word instead of the joined arguments.
prompt_user_text_raw(text) == SubSeq(text, Len(CmdPrompt) + 1, Len(text))

\* prompt_refiner, line 225: " ".join(context.args)
prompt_user_text(text) == Join(CommandArgs(text))

\* explain, line 190
explain_usage_error(user_text) == user_text = <<>> \/ StartsWith(user_text, CmdExplain)

\* prompt_refiner, line 226
prompt_usage_error(user_text) == user_text = <<>>

\* Mutant: the gate lets everybody through.
gate_denies_nobody(tbl, user_id) == FALSE

\* The gate of explain (line 177) and prompt_refiner (line 213)
gate_denies(tbl, user_id) == ~is_joined(tbl, user_id)

\* explain, lines 176-192: the gate read, the join UI, the usage check
explain_gate(s) ==
    /\ run[s].pc = "explain_gate"
    /\ \E text \in Texts(run[s].update) :
         LET user_text == explain_user_text(text)
             r == [run[s] EXCEPT !.text = text]
         IN  IF gate_denies(users, r.user_id)
             THEN /\ Set(s, [r EXCEPT !.pc = "done", !.gate = "denied",
                                      !.out = Append(@, JoinPrompt)])
                  /\ joinUI' = joinUI \cup {r.user_id}
             ELSE /\ Set(s, IF explain_usage_error(user_text)
                            THEN [r EXCEPT !.pc = "done", !.gate = "allowed",
                                           !.user_text = user_text,
                                           !.out = Append(@, ExplainUsage)]
                            ELSE [r EXCEPT !.pc = "explain_generate", !.gate = "allowed",
                                           !.user_text = user_text])
                  /\ UNCHANGED joinUI
    /\ UNCHANGED <<users, inChannel, LOG_CHANNEL>>

\* prompt_refiner, lines 212-228
prompt_refiner_gate(s) ==
    /\ run[s].pc = "prompt_refiner_gate"
    /\ \E text \in Texts(run[s].update) :
         LET user_text == prompt_user_text(text)
             r == [run[s] EXCEPT !.text = text]
         IN  IF gate_denies(users, r.user_id)
             THEN /\ Set(s, [r EXCEPT !.pc = "done", !.gate = "denied",
                                      !.out = Append(@, JoinPrompt)])
                  /\ joinUI' = joinUI \cup {r.user_id}
             ELSE /\ Set(s, IF prompt_usage_error(user_text)
                            THEN [r EXCEPT !.pc = "done", !.gate = "allowed",
                                           !.user_text = user_text,
                                           !.out = Append(@, PromptUsage)]
                            ELSE [r EXCEPT !.pc = "prompt_refiner_generate",
                                           !.gate = "allowed",
                                           !.user_text = user_text])
                  /\ UNCHANGED joinUI
    /\ UNCHANGED <<users, inChannel, LOG_CHANNEL>>

\* The try/except of explain (194-209) and prompt_refiner (230-245) once the
\* generation call has returned content `answer` or raised `res.text`: the
\* replies sent and the text handed to send_log.
respond(res, answer) ==
    IF ~res.ok
    THEN [out |-> <<Msg("reply_text", "error", ErrText(res.text), {}, TRUE)>>,
          logged |-> ErrText(res.text)]
    ELSE IF MarkdownParses(answer)
    THEN [out |-> <<Msg("reply_text", "answer", answer, {}, TRUE)>>,
          logged |-> answer]
    ELSE [out |-> <<Msg("reply_text", "answer", answer, {}, FALSE),
                    Msg("reply_text", "error", ErrText(BadRequestText), {}, TRUE)>>,
          logged |-> ErrText(BadRequestText)]

\* One call of client.chat.completions.create and what it did.
GenCall(model, system, prompt, res) ==
    [model |-> model, system |-> system, prompt |-> prompt, ok |-> res.ok, text |-> res.text]

\* explain, lines 194-209 up to the call of send_log
explain_generate(s) ==
    /\ run[s].pc = "explain_generate"
    /\ \E res \in GenOutcomes :
          LET r == respond(res, res.text)
          IN  Set(s, [run[s] EXCEPT
                         !.pc = "send_log",
                         !.gen = Append(@, GenCall(EXPLAIN_MODEL,
                                                   "You explain at multiple levels clearly.",
                                                   build_explain_prompt(run[s].user_text), res)),
                         !.out = @ \o r.out,
                         !.pending = [command |-> "explain", input |-> run[s].user_text,
                                      output |-> r.logged]])
    /\ UNCHANGED <<users, inChannel, joinUI, LOG_CHANNEL>>

\* prompt_refiner, lines 230-245 up to the call of send_log
prompt_refiner_generate(s) ==
    /\ run[s].pc = "prompt_refiner_generate"
    /\ \E res \in GenOutcomes :
          LET r == respond(res, TStrip(res.text))
          IN  Set(s, [run[s] EXCEPT
                         !.pc = "send_log",
                         !.gen = Append(@, GenCall(PROMPT_MODEL,
                                                   "You are a world-class prompt engineer. Always return in the strict format.",
                                                   build_prompt_refiner(run[s].user_text), res)),
                         !.out = @ \o r.out,
                         !.pending = [command |-> "prompt", input |-> run[s].user_text,
                                      output |-> r.logged]])
    /\ UNCHANGED <<users, inChannel, joinUI, LOG_CHANNEL>>

(* ------------------------------ Audit Logger -------------------------- *)
\* Mutant: the whole answer goes into the record.
log_msg_whole(user_id, command, user_text, answer) ==
    [user_id |-> user_id, command |-> command, input |-> user_text, output |-> answer]

\* The record send_log formats (lines 115-121).
log_msg(user_id, command, user_text, answer) ==
    [user_id |-> user_id, command |-> command, input |-> user_text,
     output |-> Prefix(answer, LogOutputLimit)]

\* Mutant: no try/except around the send; its failure reaches the except branch
\* of the calling handler, which replies with the error.
send_log_unsuppressed(s) ==
    /\ run[s].pc = "send_log"
    /\ IF LOG_CHANNEL = 0
       THEN Set(s, [run[s] EXCEPT !.pc = "done"])
       ELSE \E delivered \in BOOLEAN :
               Set(s, [run[s] EXCEPT
                          !.pc = "done",
                          !.out = IF delivered THEN @
                                  ELSE Append(@, Msg("reply_text", "error",
                                                     ErrText(BadRequestText), {}, TRUE)),
                          !.logs = Append(@, [chat_id |-> LOG_CHANNEL,
                                              msg |-> log_msg(run[s].user_id,
                                                              run[s].pending.command,
                                                              run[s].pending.input,
                                                              run[s].pending.output),
                                              delivered |-> delivered])])
    /\ UNCHANGED <<users, inChannel, joinUI, LOG_CHANNEL>>

\* send_log, lines 112-125: nothing without a log channel; otherwise one send,
\* whose failure is caught and printed.
send_log(s) ==
    /\ run[s].pc = "send_log"
    /\ IF LOG_CHANNEL = 0
       THEN Set(s, [run[s] EXCEPT !.pc = "done"])
       ELSE \E delivered \in BOOLEAN :
               Set(s, [run[s] EXCEPT
                          !.pc = "done",
                          !.logs = Append(@, [chat_id |-> LOG_CHANNEL,
                                              msg |-> log_msg(run[s].user_id,
                                                              run[s].pending.command,
                                                              run[s].pending.input,
                                                              run[s].pending.output),
                                              delivered |-> delivered])])
    /\ UNCHANGED <<users, inChannel, joinUI, LOG_CHANNEL>>

(* ------------------------------ /broadcast ---------------------------- *)
BroadcastDone(sent, failed) ==
    Msg("reply_text", "broadcast_done",
        Plain(<<"S", "e", "n", "t", ":", " ">> \o Decimal(sent)
                  \o <<" ", "F", "a", "i", "l", "e", "d", ":", " ">> \o Decimal(failed)),
        {}, TRUE)

\* Mutant: the authorization test is missing.
is_admin_anyone(user_id) == TRUE

\* broadcast, line 249
is_admin(user_id) == user_id = ADMIN_ID

\* broadcast, lines 248-258: authorization, usage, then the one read of the user list
broadcast_begin(s) ==
    /\ run[s].pc = "broadcast_begin"
    /\ \E text \in Texts(run[s].update) :
         LET r == [run[s] EXCEPT !.text = text]
         IN  Set(s, IF ~is_admin(r.user_id)
                    THEN [r EXCEPT !.pc = "done", !.out = Append(@, NotAuthorized)]
                    ELSE IF CommandArgs(text) = <<>>
                    THEN [r EXCEPT !.pc = "done", !.out = Append(@, BroadcastUsage)]
                    ELSE [r EXCEPT !.pc = "broadcast_deliver",
                                   !.user_text = Join(CommandArgs(text)),
                                   !.fetches = @ + 1,
                                   !.listed = get_all_users(users),
                                   !.todo = get_all_users(users)])
    /\ UNCHANGED <<users, inChannel, joinUI, LOG_CHANNEL>>

\* Mutant: a failed delivery ends the loop (the try around the whole loop).
tally_abort(r, uid, delivered) ==
    [r EXCEPT !.todo = IF delivered THEN @ \ {uid} ELSE {},
              !.attempts = Append(@, [chat_id |-> uid, text |-> r.user_text,
                                      delivered |-> delivered]),
              !.sent = IF delivered THEN @ + 1 ELSE @,
              !.failed = IF delivered THEN @ ELSE @ + 1]

\* The counters after one delivery attempt (lines 260-264).
tally(r, uid, delivered) ==
    [r EXCEPT !.todo = @ \ {uid},
              !.attempts = Append(@, [chat_id |-> uid, text |-> r.user_text,
                                      delivered |-> delivered]),
              !.sent = IF delivered THEN @ + 1 ELSE @,
              !.failed = IF delivered THEN @ ELSE @ + 1]

\* Mutant: each iteration reads the user list again and takes an id not yet tried.
broadcast_deliver_live(s) ==
    /\ run[s].pc = "broadcast_deliver"
    /\ \E uid \in get_all_users(users) \ {run[s].attempts[i].chat_id : i \in 1..Len(run[s].attempts)},
          delivered \in BOOLEAN :
          Set(s, tally(run[s], uid, delivered))
    /\ UNCHANGED <<users, inChannel, joinUI, LOG_CHANNEL>>

\* broadcast, lines 259-264: one iteration of the loop, in the order the rows came
broadcast_deliver(s) ==
    /\ run[s].pc = "broadcast_deliver"
    /\ \E uid \in run[s].todo, delivered \in BOOLEAN :
          Set(s, tally(run[s], uid, delivered))
    /\ UNCHANGED <<users, inChannel, joinUI, LOG_CHANNEL>>

\* broadcast, line 265: the final reply
broadcast_reply(s) ==
    /\ run[s].pc = "broadcast_deliver"
    /\ run[s].todo = {}
    /\ Set(s, [run[s] EXCEPT !.pc = "done",
                             !.out = Append(@, BroadcastDone(run[s].sent, run[s].failed))])
    /\ UNCHANGED <<users, inChannel, joinUI, LOG_CHANNEL>>

(* ----------------------------- environment ---------------------------- *)
\* A user joins or leaves REQUIRED_CHANNEL on the platform.
JoinChannel(u) ==
    /\ u \notin inChannel
    /\ inChannel' = inChannel \cup {u}
    /\ UNCHANGED <<users, joinUI, LOG_CHANNEL, run>>

LeaveChannel(u) ==
    /\ u \in inChannel
    /\ inChannel' = inChannel \ {u}
    /\ UNCHANGED <<users, joinUI, LOG_CHANNEL, run>>

(* --------------------------- uncaught faults -------------------------- *)
\* What a failing User Store operation raises (asyncpg.connect or the query).
StoreErrors == {Plain(<<"c", "o", "n", "n", "e", "c", "t">>)}

\* The steps that begin with a User Store operation made outside any try:
\* add_user (144), is_joined (146, 177, 213), update_join (170), and
\* get_all_users (258), which only an administrator's /broadcast reaches.
AtStoreOp(r) ==
    \/ r.pc \in {"start_add_user", "start_reply", "check_join_update",
                 "explain_gate", "prompt_refiner_gate"}
    \/ r.pc = "broadcast_begin" /\ is_admin(r.user_id)

\* The store operation raises: it changes nothing, the handler ends there and
\* the application hands the exception to the registered error handler (288).
store_fault(s) ==
    /\ AtStoreOp(run[s])
    /\ \E e \in StoreErrors :
          Set(s, [run[s] EXCEPT !.pc = "error_handler",
                                !.fault = <<[at |-> run[s].pc, error |-> e]>>])
    /\ UNCHANGED <<users, inChannel, joinUI, LOG_CHANNEL>>

\* Mutant: a failed send of the diagnostic is not caught and ends the process.
error_handler_fatal(s) ==
    /\ run[s].pc = "error_handler"
    /\ IF LOG_CHANNEL = 0
       THEN Set(s, [run[s] EXCEPT !.pc = "done"])
       ELSE \E delivered \in BOOLEAN :
               Set(s, [run[s] EXCEPT
                          !.pc = IF delivered THEN "done" ELSE "crashed",
                          !.diag = Append(@, [chat_id |-> LOG_CHANNEL,
                                              text |-> ErrText(run[s].fault[1].error),
                                              delivered |-> delivered])])
    /\ UNCHANGED <<users, inChannel, joinUI, LOG_CHANNEL>>

\* error_handler, lines 267-274: with a log channel, one send of the error
\* text to it, whose own failure is swallowed; without one, nothing.
error_handler(s) ==
    /\ run[s].pc = "error_handler"
    /\ IF LOG_CHANNEL = 0
       THEN Set(s, [run[s] EXCEPT !.pc = "done"])
       ELSE \E delivered \in BOOLEAN :
               Set(s, [run[s] EXCEPT
                          !.pc = "done",
                          !.diag = Append(@, [chat_id |-> LOG_CHANNEL,
                                              text |-> ErrText(run[s].fault[1].error),
                                              delivered |-> delivered])])
    /\ UNCHANGED <<users, inChannel, joinUI, LOG_CHANNEL>>

(* ---------------------------- specification --------------------------- *)
\* Updates are processed one at a time (Application.builder() default): one slot.
Next ==
    \/ Dispatch("r1", Slots)
    \/ start_add_user("r1")
    \/ start_reply("r1")
    \/ check_join_verify("r1")
    \/ check_join_update("r1")
    \/ explain_gate("r1")
    \/ explain_generate("r1")
    \/ prompt_refiner_gate("r1")
    \/ prompt_refiner_generate("r1")
    \/ send_log("r1")
    \/ broadcast_begin("r1")
    \/ broadcast_deliver("r1")
    \/ broadcast_reply("r1")
    \/ \E u \in UserIds : JoinChannel(u)
    \/ \E u \in UserIds : LeaveChannel(u)

Spec == Init /\ [][Next]_vars

\* Updates one at a time, with User Store operations that may fail.  Every
\* user is a member of the required channel throughout.
InitFault ==
    /\ users = EmptyTable
    /\ inChannel = UserIds
    /\ joinUI = {}
    /\ LOG_CHANNEL \in {0, LogChat}
    /\ run = [s \in Slots |-> IdleRun]

NextFault ==
    \/ Dispatch("r1", Slots)
    \/ start_add_user("r1")
    \/ start_reply("r1")
    \/ check_join_verify("r1")
    \/ check_join_update("r1")
    \/ explain_gate("r1")
    \/ explain_generate("r1")
    \/ prompt_refiner_gate("r1")
    \/ prompt_refiner_generate("r1")
    \/ send_log("r1")
    \/ broadcast_begin("r1")
    \/ broadcast_deliver("r1")
    \/ broadcast_reply("r1")
    \/ store_fault("r1")
    \/ error_handler("r1")

SpecFault == InitFault /\ [][NextFault]_vars

\* Two updates in progress at once (spec section 5: the hosting runtime may
\* process updates concurrently); the steps of the two runs interleave in
\* every order.  SpecRace: while slot r1 runs a text message or a check_join
\* callback, slot r2 runs a /start.
RecheckRoutes == {r \in Routes : r.update \in {"text", "callback:check_join"}}
StartRoutes == {r \in Routes : r.handler = "start"}
BroadcastRoutes == {r \in Routes : r.handler = "broadcast"}

NextRace ==
    \/ Arrive("r1", {}, RecheckRoutes)
    \/ Arrive("r2", {}, StartRoutes)
    \/ check_join_verify("r1")
    \/ check_join_update("r1")
    \/ explain_gate("r1")
    \/ explain_generate("r1")
    \/ send_log("r1")
    \/ start_add_user("r2")
    \/ start_reply("r2")
    \/ \E u \in UserIds : JoinChannel(u)
    \/ \E u \in UserIds : LeaveChannel(u)

SpecRace == Init /\ [][NextRace]_vars

\* SpecFanout: while slot r1 runs a /broadcast, slot r2 runs a /start.
NextFanout ==
    \/ Arrive("r1", {}, BroadcastRoutes)
    \/ Arrive("r2", {}, StartRoutes)
    \/ broadcast_begin("r1")
    \/ broadcast_deliver("r1")
    \/ broadcast_reply("r1")
    \/ start_add_user("r2")
    \/ start_reply("r2")

SpecFanout == Init /\ [][NextFanout]_vars

(* ------------------------------- claims ------------------------------- *)
HasRecord(u) == u \in DOMAIN users
StoredJoined(u) == u \in DOMAIN users /\ users[u]
Verified(outcome) ==
    outcome.raised = "none" /\ outcome.status \in {"member", "administrator", "creator"}
Gated(r) == r.handler \in {"explain", "prompt_refiner"}
GateRead(s) ==
    /\ run[s].pc \in {"explain_gate", "prompt_refiner_gate"}
    /\ run'[s].pc # run[s].pc

\* C1: after a check_join run of user U in which the verifier reported U as
\* verified, the User Store holds joined = true for U, whatever U did before
\* (also when U reached the join UI without ever issuing /start).
C1_RecheckVerifiedMarksJoined ==
    \A s \in Slots :
        (/\ run[s].handler = "check_join"
         /\ run[s].pc = "done"
         /\ run[s].verifier # <<>>
         /\ Verified(run[s].verifier[1]))
            => StoredJoined(run[s].user_id)

\* C2: every gated entry point ensures a record exists for the issuing user
\* before it reads the joined flag: a user whose gated command has passed the
\* gate read has a record.
C2_GatedCommandCreatesRecord ==
    \A s \in Slots :
        (Gated(run[s]) /\ run[s].gate # "none") => HasRecord(run[s].user_id)

\* C3: a gated command that reads a stored joined = true is let through (no
\* join UI; on to the usage check and the generation call), on the store's
\* value at that read, and no gated run ever consults the verifier.
C3_JoinedIsAllowed ==
    [][\A s \in Slots :
          /\ (GateRead(s) /\ StoredJoined(run[s].user_id))
                => /\ \A i \in 1..Len(run'[s].out) : run'[s].out[i].kind # "join_ui"
                   /\ \/ run'[s].pc \in {"explain_generate", "prompt_refiner_generate"}
                      \/ /\ run'[s].pc = "done"
                         /\ Len(run'[s].out) = 1
                         /\ run'[s].out[1].kind = "usage"
          /\ Gated(run'[s]) => run'[s].verifier = <<>>]_vars

\* C3 witness: a joined user who is not in the channel got a generation call.
C3_Witness ==
    \E s \in Slots :
        /\ Gated(run[s])
        /\ run[s].pc = "done"
        /\ run[s].gen # <<>>
        /\ StoredJoined(run[s].user_id)
        /\ run[s].user_id \notin inChannel

\* C4: a gated command that reads joined = false, or finds no record, ends with
\* the join UI (join link and check_join button) as its only reply, with no
\* generation call and no audit log entry, also for a real channel member.
C4_NotJoinedIsDenied ==
    [][\A s \in Slots :
          (GateRead(s) /\ ~StoredJoined(run[s].user_id))
             => /\ run'[s].pc = "done"
                /\ Len(run'[s].out) = 1
                /\ run'[s].out[1].kind = "join_ui"
                /\ run'[s].out[1].buttons = {"join_link", "check_join"}
                /\ run'[s].gen = <<>>
                /\ run'[s].logs = <<>>]_vars

\* C4 witness: a channel member with joined = false was shown the join UI.
C4_Witness ==
    \E s \in Slots :
        /\ Gated(run[s])
        /\ run[s].pc = "done"
        /\ run[s].out # <<>>
        /\ run[s].out[1].kind = "join_ui"
        /\ HasRecord(run[s].user_id)
        /\ ~users[run[s].user_id]
        /\ run[s].user_id \in inChannel

\* C5: no step removes a record or turns a joined flag from true to false, and
\* the create-if-absent of /start leaves every existing record as it was.
C5_JoinedMonotonic ==
    [][/\ \A u \in DOMAIN users : u \in DOMAIN users' /\ (users[u] => users'[u])
       /\ \A s \in Slots :
             run[s].pc = "start_add_user"
                => \A u \in DOMAIN users : users'[u] = users[u]]_vars

\* C5 witness: /start by a user whose flag was already true kept it (welcome reply).
C5_Witness ==
    \E s \in Slots :
        /\ run[s].handler = "start"
        /\ run[s].pc = "done"
        /\ run[s].out = <<Welcome>>
        /\ StoredJoined(run[s].user_id)

\* The text that follows the command word is empty or only whitespace.
BlankAfter(text, cmd) == \A i \in (Len(cmd) + 1)..Len(text) : IsSpace(text[i])
GenFailed(r) == r.gen # <<>> /\ ~r.gen[1].ok
Count(seq, Test(_)) == Cardinality({i \in 1..Len(seq) : Test(seq[i])})

\* C6 (as stated): every /prompt whose argument is empty or only whitespace is
\* answered with the usage error, with no generation call and no audit log
\* entry, whoever issues it.
C6_BlankPromptIsUsageError ==
    \A s \in Slots :
        (/\ run[s].update = "/prompt"
         /\ run[s].pc = "done"
         /\ BlankAfter(run[s].text, CmdPrompt))
            => /\ Len(run[s].out) = 1
               /\ run[s].out[1].kind = "usage"
               /\ run[s].gen = <<>>
               /\ run[s].logs = <<>>

\* C6 (amended): a /prompt whose argument is empty or only whitespace makes no
\* generation call and no audit log entry; its one reply is the usage error
\* when the stored joined flag is true, and the join UI otherwise.
C6_BlankPromptNoGeneration ==
    \A s \in Slots :
        (/\ run[s].update = "/prompt"
         /\ run[s].pc = "done"
         /\ BlankAfter(run[s].text, CmdPrompt))
            => /\ Len(run[s].out) = 1
               /\ run[s].out[1].kind =
                      IF StoredJoined(run[s].user_id) THEN "usage" ELSE "join_ui"
               /\ run[s].out[1].delivered
               /\ run[s].gen = <<>>
               /\ run[s].logs = <<>>

\* C6 witness: a joined user sent /prompt followed by whitespace only and got
\* the usage error.
C6_Witness ==
    \E s \in Slots :
        /\ run[s].update = "/prompt"
        /\ run[s].pc = "done"
        /\ Len(run[s].text) > Len(CmdPrompt)
        /\ BlankAfter(run[s].text, CmdPrompt)
        /\ StoredJoined(run[s].user_id)
        /\ run[s].out = <<PromptUsage>>

\* C7 (as stated): when the generation call fails, the user gets exactly one
\* reply, the error text behind the error marker, and an audit log entry is
\* emitted with the original input and that error text as its output.
C7_GenerationErrorRepliedAndLogged ==
    \A s \in Slots :
        (Gated(run[s]) /\ run[s].pc = "done" /\ GenFailed(run[s]))
            => LET err == Prepend(ErrPrefix, run[s].gen[1].text)
               IN  /\ Len(run[s].out) = 1
                   /\ run[s].out[1].delivered
                   /\ run[s].out[1].text = err
                   /\ Len(run[s].logs) = 1
                   /\ run[s].logs[1].msg.input = run[s].user_text
                   /\ run[s].logs[1].msg.output = err

\* C7 (amended): when the generation call fails, the user gets exactly one
\* reply, the error text behind the error marker; with a log channel configured
\* exactly one audit log send is made, with the command name, the original
\* input and the first 3500 characters of that error text as its output, and
\* without a log channel none is made.
C7_GenerationErrorRepliedAndLoggedTruncated ==
    \A s \in Slots :
        (Gated(run[s]) /\ run[s].pc = "done" /\ GenFailed(run[s]))
            => LET err == Prepend(ErrPrefix, run[s].gen[1].text)
               IN  /\ Len(run[s].gen) = 1
                   /\ Len(run[s].out) = 1
                   /\ run[s].out[1].delivered
                   /\ run[s].out[1].text = err
                   /\ IF LOG_CHANNEL = 0
                      THEN run[s].logs = <<>>
                      ELSE /\ Len(run[s].logs) = 1
                           /\ run[s].logs[1].chat_id = LOG_CHANNEL
                           /\ run[s].logs[1].msg.command =
                                  (IF run[s].handler = "explain" THEN "explain" ELSE "prompt")
                           /\ run[s].logs[1].msg.input = run[s].user_text
                           /\ run[s].logs[1].msg.output = Prefix(err, 3500)

\* C7 witness: /prompt of a joined user failed with an error text longer than
\* the log keeps; the reply carries all of it and the log entry its prefix.
C7_Witness ==
    \E s \in Slots :
        /\ run[s].handler = "prompt_refiner"
        /\ run[s].pc = "done"
        /\ GenFailed(run[s])
        /\ Len(run[s].logs) = 1
        /\ TLen(run[s].out[1].text) > 3500
        /\ TLen(run[s].logs[1].msg.output) = 3500

\* C8: a broadcast reads the user list and delivers only for the administrator
\* with a non-empty message; any other issuer gets the not-authorized reply and
\* the administrator without text the usage reply, in both cases with no
\* delivery and no read of the user list.
C8_BroadcastNeedsAdminAndText ==
    \A s \in Slots :
        run[s].handler = "broadcast"
            => /\ (run[s].fetches > 0 \/ run[s].attempts # <<>>)
                     => (run[s].user_id = ADMIN_ID /\ ~BlankAfter(run[s].text, CmdBroadcast))
               /\ (run[s].pc = "done" /\ run[s].user_id # ADMIN_ID)
                     => /\ Len(run[s].out) = 1
                        /\ run[s].out[1].kind = "unauthorized"
                        /\ run[s].attempts = <<>>
                        /\ run[s].fetches = 0
               /\ (/\ run[s].pc = "done"
                   /\ run[s].user_id = ADMIN_ID
                   /\ BlankAfter(run[s].text, CmdBroadcast))
                     => /\ Len(run[s].out) = 1
                        /\ run[s].out[1].kind = "usage"
                        /\ run[s].attempts = <<>>
                        /\ run[s].fetches = 0

\* C8 witness: a non-administrator sent /broadcast with a message and was refused.
C8_Witness ==
    \E s \in Slots :
        /\ run[s].handler = "broadcast"
        /\ run[s].pc = "done"
        /\ run[s].user_id # ADMIN_ID
        /\ ~BlankAfter(run[s].text, CmdBroadcast)
        /\ run[s].out = <<NotAuthorized>>
        /\ DOMAIN users # {}

\* C9: an authorized non-empty broadcast over a listing of n ids reads the list
\* once, attempts exactly one delivery per listed id whatever fails, and ends
\* with one reply reporting sent = deliveries that succeeded and failed =
\* deliveries that raised, sent + failed = n.
C9_BroadcastCountsEveryRecipient ==
    \A s \in Slots :
        (run[s].handler = "broadcast" /\ run[s].pc = "done" /\ run[s].fetches > 0)
            => LET r == run[s]
                   n == Cardinality(r.listed)
                   ok == Count(r.attempts, LAMBDA a : a.delivered)
                   ko == Count(r.attempts, LAMBDA a : ~a.delivered)
               IN  /\ r.fetches = 1
                   /\ r.listed = DOMAIN users
                   /\ Len(r.attempts) = n
                   /\ {r.attempts[i].chat_id : i \in 1..Len(r.attempts)} = r.listed
                   /\ r.sent = ok
                   /\ r.failed = ko
                   /\ r.sent + r.failed = n
                   /\ Len(r.out) = 1
                   /\ r.out[1].kind = "broadcast_done"
                   /\ r.out[1].text.s =
                          <<"S", "e", "n", "t", ":", " ">> \o Decimal(ok)
                              \o <<" ", "F", "a", "i", "l", "e", "d", ":", " ">> \o Decimal(ko)

\* C9 witness: the first delivery failed, the next one was still made and
\* succeeded, and the reply reports sent 1, failed 1.
C9_Witness ==
    \E s \in Slots :
        /\ run[s].handler = "broadcast"
        /\ run[s].pc = "done"
        /\ Len(run[s].attempts) = 2
        /\ ~run[s].attempts[1].delivered
        /\ run[s].attempts[2].delivered
        /\ run[s].sent = 1
        /\ run[s].failed = 1

\* C10: a check_join whose verifier answer is not verified, or indeterminate
\* (Forbidden, BadRequest, any other exception), ends the run at once with the
\* store unchanged and the transient alert as the only thing shown (no edit of
\* the join-UI message).
C10_FailedRecheckChangesNothing ==
    [][\A s \in Slots :
          (/\ run[s].pc = "check_join_verify"
           /\ run'[s].pc # "check_join_verify"
           /\ ~Verified(run'[s].verifier[1]))
             => /\ users' = users
                /\ run'[s].pc = "done"
                /\ Len(run'[s].out) = 1
                /\ run'[s].out[1].via = "answer"
                /\ run'[s].out[1].kind = "alert"]_vars

\* C10 witness: get_chat_member raised Forbidden for a user who is in the
\* channel; the user saw the alert and is still not joined.
C10_Witness ==
    \E s \in Slots :
        /\ run[s].handler = "check_join"
        /\ run[s].pc = "done"
        /\ run[s].verifier # <<>>
        /\ run[s].verifier[1].raised = "Forbidden"
        /\ run[s].user_id \in inChannel
        /\ run[s].out = <<NotJoinedAlert>>
        /\ HasRecord(run[s].user_id)
        /\ ~users[run[s].user_id]

\* C11: a verified check_join that directly follows a verified check_join of the
\* same user goes the same way (on to update_join, then the success message)
\* and leaves the store exactly as the first one left it; a flag that was true
\* stays true.
C11_RecheckIdempotent ==
    [][\A s \in Slots :
          /\ (/\ run[s].after = "check_join"
              /\ run[s].pc = "check_join_verify"
              /\ run'[s].pc # "check_join_verify"
              /\ Verified(run'[s].verifier[1]))
                => (run'[s].pc = "check_join_update" /\ users' = users)
          /\ (/\ run[s].after = "check_join"
              /\ run[s].pc = "check_join_update"
              /\ run'[s].pc # "check_join_update")
                => /\ users' = users
                   /\ StoredJoined(run[s].user_id) => users'[run[s].user_id]
                   /\ run'[s].pc = "done"
                   /\ Len(run'[s].out) = 1
                   /\ run'[s].out[1].via = "edit_text"
                   /\ run'[s].out[1].kind = "joined"]_vars

\* C11 witness: the second of two verified rechecks has finished with the
\* success message and the flag is true.
C11_Witness ==
    \E s \in Slots :
        /\ run[s].handler = "check_join"
        /\ run[s].after = "check_join"
        /\ run[s].pc = "done"
        /\ run[s].out = <<ThanksForJoining>>
        /\ StoredJoined(run[s].user_id)

\* C12: the audit log send comes after the reply to the user, and whether it
\* succeeds or fails the run ends normally with the replies and the store as
\* they were: no further reply, no fault handed to the error handler.
C12_LogFailureSuppressed ==
    [][\A s \in Slots :
          (run[s].pc = "send_log" /\ run'[s].pc # "send_log")
             => /\ run[s].out # <<>>
                /\ run[s].out[Len(run[s].out)].delivered
                /\ run[s].logs = <<>>
                /\ run'[s].out = run[s].out
                /\ users' = users
                /\ run'[s].pc = "done"
                /\ run'[s].diag = <<>>]_vars

\* C12 witness: the log send failed; the user has the one answer and nothing else.
C12_Witness ==
    \E s \in Slots :
        /\ Gated(run[s])
        /\ run[s].pc = "done"
        /\ Len(run[s].logs) = 1
        /\ ~run[s].logs[1].delivered
        /\ Len(run[s].out) = 1
        /\ run[s].out[1].kind = "answer"
        /\ run[s].out[1].delivered

\* C13: when a /start run and a verified check_join run of the same user were
\* in progress at the same time and both have completed, the store holds a
\* record for that user with joined = true.
C13_NoLostUpdate ==
    \A s, t \in Slots :
        (/\ run[s].handler = "start" /\ run[s].pc = "done" /\ run[s].overlap
         /\ run[t].handler = "check_join" /\ run[t].pc = "done" /\ run[t].overlap
         /\ run[t].user_id = run[s].user_id
         /\ run[t].verifier # <<>>
         /\ Verified(run[t].verifier[1]))
            => StoredJoined(run[s].user_id)

\* C14: a finished explain run of a user whose gate read said joined took its
\* input from the command arguments (/explain) or from the message body (bare
\* text); with a non-empty input it made exactly one generation call, with the
\* explain model and the explain template built on that input; with no
\* argument text it gave the usage reply, made no generation call and logged
\* nothing.
C14_ExplainInput ==
    \A s \in Slots :
        (run[s].handler = "explain" /\ run[s].pc = "done" /\ run[s].gate = "allowed")
           => LET input == IF run[s].update = "text" THEN run[s].text
                           ELSE Join(CommandArgs(run[s].text))
              IN  IF input # <<>>
                  THEN /\ Len(run[s].gen) = 1
                       /\ run[s].gen[1].model = EXPLAIN_MODEL
                       /\ run[s].gen[1].prompt = build_explain_prompt(input)
                  ELSE /\ run[s].gen = <<>>
                       /\ run[s].out = <<ExplainUsage>>
                       /\ run[s].logs = <<>>

\* C15 as stated: every run ended by an uncaught fault has left exactly one
\* diagnostic entry for the log channel.
C15_FaultAlwaysDiagnosed ==
    \A s \in Slots :
        (run[s].pc = "done" /\ run[s].fault # <<>>) => Len(run[s].diag) = 1

\* C15: a failing User Store operation leaves the store and the replies as
\* they were and hands over to the error handler; the error handler makes one
\* send of the error text to the log channel when one is configured and none
\* otherwise, and whether or not that send succeeds it changes neither store
\* nor replies and ends the run, so that the next update can be dispatched;
\* the run of that next update reads the gate from the store as usual.
C15_FaultContained ==
    [][\A s \in Slots :
          /\ (run[s].pc # "error_handler" /\ run'[s].pc = "error_handler")
                => /\ users' = users
                   /\ run'[s].out = run[s].out
                   /\ run'[s].diag = <<>>
          /\ (run[s].pc = "error_handler" /\ run'[s].pc # "error_handler")
                => /\ users' = users
                   /\ run'[s].out = run[s].out
                   /\ run'[s].pc = "done"
                   /\ Quiet(Slots)'
                   /\ IF LOG_CHANNEL # 0
                      THEN /\ Len(run'[s].diag) = 1
                           /\ run'[s].diag[1].chat_id = LOG_CHANNEL
                           /\ run'[s].diag[1].text = ErrText(run[s].fault[1].error)
                      ELSE run'[s].diag = <<>>
          /\ (run[s].recovered /\ GateRead(s) /\ run'[s].fault = <<>>)
                => (run'[s].gate = "allowed" <=> StoredJoined(run[s].user_id))]_vars

\* C15 witness: with a log channel configured, the update that came after a
\* faulted one was served: it passed the gate and got its generated answer.
C15_Witness ==
    \E s \in Slots :
        /\ LOG_CHANNEL # 0
        /\ run[s].recovered
        /\ run[s].fault = <<>>
        /\ run[s].handler = "explain"
        /\ run[s].pc = "done"
        /\ Len(run[s].gen) = 1
        /\ Len(run[s].out) = 1
        /\ run[s].out[1].kind = "answer"

\* C16: a user's joined flag becomes true only in the update_join step of a
\* check_join run of that same user whose verifier answered verified; a step
\* of start, explain, prompt_refiner or broadcast changes the flag of no
\* record (start can only add the record of its own user, not joined); and a
\* step of check_join changes neither flag nor record of any other user.
C16_OnlyOwnVerifiedRecheckSetsJoined ==
    [][/\ \A u \in UserIds :
             (StoredJoined(u)' /\ ~StoredJoined(u))
                => \E s \in Slots :
                      /\ run[s].handler = "check_join"
                      /\ run[s].pc = "check_join_update"
                      /\ run'[s].pc = "done"
                      /\ run[s].user_id = u
                      /\ Verified(run[s].verifier[1])
       /\ \A s \in Slots :
             /\ (run'[s] # run[s] /\ run'[s].handler # "check_join")
                   => /\ \A u \in DOMAIN users : HasRecord(u)' /\ users'[u] = users[u]
                      /\ \A u \in DOMAIN users' \ DOMAIN users :
                            /\ run[s].handler = "start"
                            /\ u = run[s].user_id
                            /\ ~users'[u]
             /\ (run'[s] # run[s] /\ run[s].handler = "check_join")
                   => \A u \in UserIds \ {run[s].user_id} :
                         /\ HasRecord(u)' <=> HasRecord(u)
                         /\ HasRecord(u) => users'[u] = users[u]]_vars

\* C16 witness: a verified check_join has set its user's flag while another
\* user's record is still not joined.
C16_Witness ==
    \E s \in Slots, u \in UserIds :
        /\ run[s].handler = "check_join"
        /\ run[s].pc = "done"
        /\ run[s].verifier # <<>>
        /\ Verified(run[s].verifier[1])
        /\ StoredJoined(run[s].user_id)
        /\ u # run[s].user_id
        /\ HasRecord(u)
        /\ ~users[u]

\* C17: a finished explain or prompt run that passed the gate and the usage
\* check has, with a log channel configured, exactly one audit record: its
\* command is the entry point's name, its input the request's user text, its
\* output the first 3500 characters of the last reply, which reached the user;
\* without a log channel it has none.  Whatever the handler and wherever it
\* stands, a run with an audit record has made its generation call and
\* delivered its reply.
C17_OneAuditRecordPerServedRequest ==
    \A s \in Slots :
        /\ (/\ Gated(run[s]) /\ run[s].pc = "done" /\ run[s].gate = "allowed"
            /\ run[s].out \notin {<<ExplainUsage>>, <<PromptUsage>>})
              => LET reply == run[s].out[Len(run[s].out)]
                 IN  /\ reply.delivered
                     /\ reply.kind \in {"answer", "error"}
                     /\ IF LOG_CHANNEL = 0
                        THEN run[s].logs = <<>>
                        ELSE /\ Len(run[s].logs) = 1
                             /\ run[s].logs[1].chat_id = LOG_CHANNEL
                             /\ run[s].logs[1].msg.user_id = run[s].user_id
                             /\ run[s].logs[1].msg.command =
                                   (IF run[s].handler = "explain" THEN "explain" ELSE "prompt")
                             /\ run[s].logs[1].msg.input = run[s].user_text
                             /\ run[s].logs[1].msg.output = Prefix(reply.text, LogOutputLimit)
        /\ run[s].logs # <<>>
              => /\ Gated(run[s])
                 /\ Len(run[s].gen) = 1
                 /\ run[s].out # <<>>
                 /\ run[s].out[Len(run[s].out)].delivered

\* C17 witness: an explain request was answered with a text longer than the
\* log keeps; its one audit record carries the first 3500 characters.
C17_Witness ==
    \E s \in Slots :
        /\ run[s].handler = "explain"
        /\ run[s].pc = "done"
        /\ run[s].gen # <<>>
        /\ run[s].gen[1].ok
        /\ Len(run[s].out) = 1
        /\ run[s].out[1].kind = "answer"
        /\ TLen(run[s].out[1].text) > LogOutputLimit
        /\ Len(run[s].logs) = 1
        /\ run[s].logs[1].msg.command = "explain"
        /\ TLen(run[s].logs[1].msg.output) = LogOutputLimit

Attempted(r) == {r.attempts[i].chat_id : i \in 1..Len(r.attempts)}

\* C18: the recipients of a broadcast are the ids the store held at its one
\* read: each iteration of the loop attempts one id of that snapshot not yet
\* attempted, whatever rows a concurrent /start has added meanwhile, and the
\* final reply comes when every id of the snapshot has been attempted exactly
\* once, with sent + failed equal to the size of the snapshot.
C18_RecipientsAreTheSnapshot ==
    [][\A s \in Slots :
          /\ (run[s].pc = "broadcast_begin" /\ run'[s].pc = "broadcast_deliver")
                => /\ run'[s].listed = DOMAIN users
                   /\ run'[s].fetches = 1
                   /\ run'[s].attempts = <<>>
                   /\ run'[s].sent = 0 /\ run'[s].failed = 0
          /\ (run[s].pc = "broadcast_deliver" /\ run'[s] # run[s])
                => /\ run'[s].listed = run[s].listed
                   /\ run'[s].fetches = 1
                   /\ Attempted(run'[s]) \subseteq run[s].listed
                   /\ Len(run'[s].attempts) = Cardinality(Attempted(run'[s]))
                   /\ run'[s].sent + run'[s].failed = Len(run'[s].attempts)
                   /\ IF run'[s].pc = "done"
                      THEN /\ run'[s].attempts = run[s].attempts
                           /\ Attempted(run[s]) = run[s].listed
                           /\ run[s].sent + run[s].failed = Cardinality(run[s].listed)
                      ELSE /\ run'[s].pc = "broadcast_deliver"
                           /\ Len(run'[s].attempts) = Len(run[s].attempts) + 1]_vars

\* C18 witness: a broadcast over a non-empty snapshot has finished, and the
\* store holds a user whose record a concurrent /start created after the read:
\* that user was not attempted and is in neither count.
C18_Witness ==
    \E s, t \in Slots, u \in UserIds :
        /\ run[s].handler = "broadcast"
        /\ run[s].pc = "done"
        /\ run[s].overlap
        /\ run[s].listed # {}
        /\ run[t].handler = "start"
        /\ run[t].user_id = u
        /\ HasRecord(u)
        /\ u \notin run[s].listed
        /\ u \notin Attempted(run[s])
        /\ run[s].sent + run[s].failed = Cardinality(run[s].listed)

C20_BroadcastIgnoresGate ==
    [][\A s \in Slots :
          (run[s].handler = "broadcast" /\ run[s].pc # "done" /\ run'[s] # run[s])
             => /\ users' = users
                /\ run'[s].logs = <<>>
                /\ run'[s].gate = "none"
                /\ run[s].pc = "broadcast_begin"
                      => /\ run'[s].pc = "broadcast_deliver"
                            <=> (run[s].user_id = ADMIN_ID /\ CommandArgs(run'[s].text) # <<>>)
                         /\ run'[s].pc = "broadcast_deliver"
                               => run'[s].todo = DOMAIN users
                /\ (run'[s].pc = "done" /\ run'[s].fetches > 0)
                      => Attempted(run'[s]) = DOMAIN users]_vars

\* C20 witness: the administrator, who has no record, has broadcast to a user
\* whose flag is false.
C20_Witness ==
    \E s \in Slots, u \in UserIds :
        /\ run[s].handler = "broadcast"
        /\ run[s].pc = "done"
        /\ ~HasRecord(run[s].user_id)
        /\ HasRecord(u)
        /\ ~users[u]
        /\ u \in Attempted(run[s])
        /\ run[s].logs = <<>>

====
